---- MODULE Spec2Model ----
(***************************************************************************)
(* Ledger engine of duit: the EntryDao of internal/backend/api/entryrepo.go *)
(* (SaveEntries, SaveEntry, UpdateEntry, DeleteEntries and the category    *)
(* resolvers CreateCategoriesIfNotExist / CreateCategoryIfNotExists) over  *)
(* the category and entry tables of the relational store.                  *)
(*                                                                         *)
(* Every statement of the DAO is built with RunWith(d.db): it runs on a    *)
(* pooled connection in autocommit mode and is visible to every other      *)
(* connection as soon as it returns.  The *sql.Tx values the DAO obtains   *)
(* from d.db.Begin() never run a statement, so Commit and Rollback end an  *)
(* empty transaction.  The model keeps the transactions (tx) next to the   *)
(* tables so that both facts can be read off a trace.                      *)
(*                                                                         *)
(* One step of a process is one round trip to the store (Begin, Query or   *)
(* Exec), which is the granularity at which concurrent requests interleave.*)
(* An Exec may fail (connection-level error); Query and Begin errors are   *)
(* not modelled.                                                           *)
(*                                                                         *)
(* Specifications:                                                         *)
(*   Spec          the DAO calls, one request handler at a time            *)
(*   SpecConc      the DAO calls of two request handlers interleaved       *)
(*   SpecAccounts  the AccountDao calls next to SaveEntries, SaveEntry,    *)
(*                 UpdateEntry and DeleteEntries, one request at a time    *)
(*   SpecUsers     the InsertUser, UpdateUser and DeleteUsers handlers of  *)
(*                 two requests interleaved                                *)
(*   SpecLedger    insert, update, list and export requests with amounts,  *)
(*                 dates and affected accounts, on a ledger holding a      *)
(*                 transfer                                                *)
(*   SpecImport    the CSV import handler: date and amount texts, skipped  *)
(*                 rows, the affected account, SaveEntries of the rest     *)
(*   SpecRoundTrip the CSV export of an account imported into another      *)
(*   SpecCharts    the expense range over the view cumulative_amount       *)
(*   SpecTotals    the per-category totals of a month over a stored ledger *)
(*   SpecPages     the paged listing of the entries of an account          *)
(***************************************************************************)
EXTENDS Integers, Sequences, FiniteSets, TLC

VARIABLES
    category,       \* table category: set of rows [id, account_id, name, type]
    entry,          \* table entry: set of rows [id, account_id, affected_account_id, type, category, amount, date]
    lastCategoryID, \* AUTO_INCREMENT counter of category.id
    lastEntryID,    \* AUTO_INCREMENT counter of entry.id
    scanOrder,      \* order in which the engine returns rows of a SELECT without ORDER BY
    pc,             \* per request handler: the statement it executes next
    req,            \* per request handler: the DAO call and its arguments
    loc,            \* per request handler: the local variables of the DAO call
    tx,             \* per request handler: the transactions begun by the call, in Begin order
    ret,            \* per request handler: what the last completed call returned
    pre,            \* per request handler: the tables at the moment the call was made
    rep,            \* per request handler: id returned by the preceding identical successful CreateCategoryIfNotExists, else 0
    calls,          \* work submitted so far: DAO calls made, plus the extra entries of their batches
    cumulative_amount, \* view cumulative_amount: set of rows [account_id, year, month, amount]
    account,        \* table account: set of rows [id, name]
    lastAccountID,  \* AUTO_INCREMENT counter of account.id
    user,           \* table user: set of rows [id, username, admin]
    lastUserID      \* AUTO_INCREMENT counter of user.id

vars == <<category, entry, lastCategoryID, lastEntryID, scanOrder, pc, req, loc, tx, ret, pre, rep, calls,
          cumulative_amount, account, lastAccountID, user, lastUserID>>

(***************************************************************************)
(* Bounds of the model                                                     *)
(***************************************************************************)
\* Work the callers submit in one behaviour: every call counts one, every entry of a
\* batch beyond the first counts one more.
MaxWork == 2

Procs == {"p1", "p2"}
AccountIDs == {1, 2}
\* The accounts the entries of the requests belong to: saved before any entry is.
StoredAccounts == {[id |-> a, name |-> "cash"] : a \in AccountIDs}
Names == {"", "Food"}

(***************************************************************************)
(* model.Type                                                              *)
(***************************************************************************)
Income == 1
Expense == 2
Transfer == 3
Types == {Income, Expense, Transfer}

IsIncome(t) == t = Income
IsExpense(t) == t = Expense

\* The zero values of model.Category and of a missing map entry / id.
NoCategory == 0
NoRow == [id |-> 0, account_id |-> 0, name |-> "", type |-> 0]

(***************************************************************************)
(* database/sql transactions: Begin, Commit, Rollback                      *)
(***************************************************************************)
TxBegin(t) == Append(t, "open")
\* Commit / Rollback of transaction i: a transaction that is already done stays as it is (ErrTxDone).
TxCommit(t, i) == [t EXCEPT ![i] = IF @ = "open" THEN "committed" ELSE @]
TxRollback(t, i) == [t EXCEPT ![i] = IF @ = "open" THEN "rolledback" ELSE @]
\* The error Commit returns: "" (nil) or "txdone" (sql.ErrTxDone).
TxCommitErr(t, i) == IF t[i] = "open" THEN "" ELSE "txdone"

(***************************************************************************)
(* Row order of a SELECT without ORDER BY                                  *)
(***************************************************************************)
RECURSIVE RowsAsc(_)
RowsAsc(S) ==
    IF S = {} THEN <<>>
    ELSE LET m == CHOOSE r \in S : \A q \in S : r.id <= q.id
         IN <<m>> \o RowsAsc(S \ {m})

Reverse(s) == [i \in 1..Len(s) |-> s[Len(s) + 1 - i]]

Scan(S) == IF scanOrder = "asc" THEN RowsAsc(S) ELSE Reverse(RowsAsc(S))

(***************************************************************************)
(* Requests                                                                *)
(***************************************************************************)
\* A model.Entry as decoded from a request; category is the category NAME ("" = none).
EntryOf(id, a, t, n) ==
    [id |-> id, account_id |-> a, affected_account_id |-> 0, type |-> t,
     category |-> n, amount |-> 1, date |-> 1]

EntryInputs == {EntryOf(0, a, t, n) : a \in AccountIDs, t \in Types, n \in Names}

\* ImportEntriesFromCSV builds the batch: one account, types Income or Expense only.
BatchEntries(a) == {EntryOf(0, a, t, n) : t \in {Income, Expense}, n \in Names}
Batches ==
    UNION {UNION {[1..k -> BatchEntries(a)] : k \in 0..(MaxWork - calls)} : a \in AccountIDs}

\* Calls that only read the tables.
ReadOps == {"Entries", "Export", "ExpenseRange", "CategoryTotals", "Page"}

Cost(r) ==
    IF r.op \in ReadOps THEN 0
    ELSE IF Len(r.entries) > 1 THEN Len(r.entries) ELSE 1

NoReq == [op |-> "", entries |-> <<>>, ids |-> {}]
NoUser == [id |-> 0, username |-> "", admin |-> FALSE]
NoLoc == [entryCategories |-> <<>>, newCategories |-> <<>>, categories |-> <<>>, category |-> NoRow,
          usernames |-> <<>>, oldUser |-> NoUser, deleted |-> {}]
NoRange == [min |-> 0, max |-> 0]
NoRet == [err |-> "", category |-> NoRow, id |-> 0, count |-> 0, entries |-> <<>>,
          range |-> NoRange, summaries |-> {}, usernames |-> <<>>, paging |-> [page |-> 0, maxPage |-> 0, offset |-> 0]]
NoPre == [category |-> {}, entry |-> {}, lastEntryID |-> 0, account |-> {}, user |-> {}]

Err(kind) == [NoRet EXCEPT !.err = kind]

Idle(p) == pc[p] \in {"idle", "done"}

\* The caller makes DAO call r: the tables at that moment are remembered in pre.
StartCall(p, r) ==
    /\ Idle(p)
    /\ calls + Cost(r) <= MaxWork
    /\ calls' = calls + Cost(r)
    /\ req' = [req EXCEPT ![p] = r]
    /\ pre' = [pre EXCEPT ![p] = [category |-> category, entry |-> entry, lastEntryID |-> lastEntryID,
                                  account |-> account, user |-> user]]
    /\ rep' = [rep EXCEPT ![p] =
                 IF /\ r.op = "CreateCategoryIfNotExists"
                    /\ pc[p] = "done"
                    /\ req[p] = r
                    /\ ret[p].err = ""
                 THEN ret[p].category.id ELSE 0]

Return(p, r) ==
    /\ pc' = [pc EXCEPT ![p] = "done"]
    /\ ret' = [ret EXCEPT ![p] = r]

(***************************************************************************)
(* Category queries                                                        *)
(***************************************************************************)
\* WHERE account_id = ? AND name IN (names)
FindCategoriesByName(names, accountId) ==
    Scan({c \in category : c.account_id = accountId /\ c.name \in names})

\* The lookup with the name comparison inverted (sq.NotEq for sq.Eq).
CategoryMatchesNotEq(c, accountId, name) ==
    c.account_id = accountId /\ c.name # name

\* WHERE account_id = ? AND name = ?  (CreateCategoryIfNotExists)
CategoryMatches(c, accountId, name) ==
    c.account_id = accountId /\ c.name = name

\* SELECT ... LIMIT 1: the first row of the scan, NoRow when rows.Next() is false.
SelectCategory(accountId, name) ==
    LET rows == Scan({c \in category : CategoryMatches(c, accountId, name)})
    IN IF rows = <<>> THEN NoRow ELSE rows[1]

\* INSERT INTO category of the rows cs with ids counted from 1 in every statement.
InsertedCategoriesFromOne(cs) ==
    {[id |-> i, account_id |-> cs[i].account_id,
      name |-> cs[i].name, type |-> cs[i].type] : i \in 1..Len(cs)}

\* INSERT INTO category of the rows cs (one statement): ids are assigned in order.
InsertedCategories(cs) ==
    {[id |-> lastCategoryID + i, account_id |-> cs[i].account_id,
      name |-> cs[i].name, type |-> cs[i].type] : i \in 1..Len(cs)}

(***************************************************************************)
(* CreateCategoriesIfNotExist: local computations                          *)
(***************************************************************************)
\* SaveEntries: one model.Category per entry, all under entries[0].AccountID.
EntryCategories(entries) ==
    [i \in 1..Len(entries) |->
        [account_id |-> entries[1].account_id, name |-> entries[i].category,
         type |-> entries[i].type]]

CategoryNames(cs) == {cs[i].name : i \in 1..Len(cs)}

\* The requested categories absent from existingCategoriesMap (keyed "type-name").
NewCategories(cs, existing) ==
    SelectSeq(cs, LAMBDA c :
        ~ \E i \in 1..Len(existing) :
            existing[i].type = c.type /\ existing[i].name = c.name)

\* categoriesIDs[name] after the loop over categories: the last row of that name
\* wins; a name that is absent reads as the zero value.
CategoriesIDs(cats, name) ==
    LET hits == {i \in 1..Len(cats) : cats[i].name = name}
    IN IF hits = {} THEN NoCategory
       ELSE cats[CHOOSE i \in hits : \A j \in hits : j <= i].id

\* INSERT INTO entry of the batch (one statement).
InsertedEntries(entries, cats) ==
    {[id |-> lastEntryID + i,
      account_id |-> entries[i].account_id,
      affected_account_id |-> entries[i].affected_account_id,
      type |-> entries[i].type,
      category |-> CategoriesIDs(cats, entries[i].category),
      amount |-> entries[i].amount,
      date |-> entries[i].date] : i \in 1..Len(entries)}

(***************************************************************************)
(* SaveEntries                                                             *)
(***************************************************************************)
\* Lines 191-212 and 427-445: empty batch returns nil; otherwise Begin (SaveEntries),
\* then CreateCategoriesIfNotExist begins its own transaction.
SaveEntriesOf(p, r) ==
    LET es == r.entries
    IN  /\ StartCall(p, r)
        /\ IF Len(es) = 0
           THEN /\ Return(p, NoRet)
                /\ tx' = [tx EXCEPT ![p] = <<>>]
                /\ loc' = [loc EXCEPT ![p] = NoLoc]
           ELSE /\ pc' = [pc EXCEPT ![p] = "FetchNamed"]
                /\ ret' = [ret EXCEPT ![p] = NoRet]
                /\ tx' = [tx EXCEPT ![p] = TxBegin(TxBegin(<<>>))]
                /\ loc' = [loc EXCEPT ![p] = [NoLoc EXCEPT !.entryCategories = EntryCategories(es)]]
        /\ UNCHANGED <<category, entry, lastCategoryID, lastEntryID, scanOrder>>

\* SaveEntries of a batch as ImportEntriesFromCSV builds them.
CallSaveEntries(p) ==
    \E es \in Batches :
        SaveEntriesOf(p, [op |-> "SaveEntries", entries |-> es, ids |-> {}])

\* (1) Fetch named categories, find those that do not exist; with none missing
\* CreateCategoriesIfNotExist returns existingCategories (its transaction stays open).
FetchNamed(p) ==
    /\ pc[p] = "FetchNamed"
    /\ LET cs == loc[p].entryCategories
           existing == FindCategoriesByName(CategoryNames(cs), cs[1].account_id)
           new == NewCategories(cs, existing)
       IN IF new = <<>>
          THEN /\ loc' = [loc EXCEPT ![p].categories = existing]
               /\ pc' = [pc EXCEPT ![p] = "InsertEntries"]
          ELSE /\ loc' = [loc EXCEPT ![p].newCategories = new]
               /\ pc' = [pc EXCEPT ![p] = "InsertCategories"]
    /\ UNCHANGED <<category, entry, lastCategoryID, lastEntryID, scanOrder, req, tx, ret, pre, rep, calls>>

\* (2) Create new categories.  On error the resolver rolls its transaction back and
\* SaveEntries returns the error (line 216) without ending its own transaction.
InsertCategories(p) ==
    /\ pc[p] = "InsertCategories"
    /\ \E fail \in BOOLEAN :
        IF fail
        THEN /\ tx' = [tx EXCEPT ![p] = TxRollback(@, 2)]
             /\ Return(p, Err("store"))
             /\ UNCHANGED <<category, lastCategoryID>>
        ELSE /\ category' = category \cup InsertedCategories(loc[p].newCategories)
             /\ lastCategoryID' = lastCategoryID + Len(loc[p].newCategories)
             /\ tx' = [tx EXCEPT ![p] = TxCommit(@, 2)]
             /\ pc' = [pc EXCEPT ![p] = "Requery"]
             /\ ret' = ret
    /\ UNCHANGED <<entry, lastEntryID, scanOrder, req, loc, pre, rep, calls>>

\* (3) Query to get all categories.
Requery(p) ==
    /\ pc[p] = "Requery"
    /\ LET cs == loc[p].entryCategories
       IN loc' = [loc EXCEPT ![p].categories =
                     FindCategoriesByName(CategoryNames(cs), cs[1].account_id)]
    /\ pc' = [pc EXCEPT ![p] = "InsertEntries"]
    /\ UNCHANGED <<category, entry, lastCategoryID, lastEntryID, scanOrder, req, tx, ret, pre, rep, calls>>

\* Lines 219-263: build categoriesIDs, insert the batch, roll back on error, else commit.
InsertEntries(p) ==
    /\ pc[p] = "InsertEntries"
    /\ \E fail \in BOOLEAN :
        IF fail
        THEN /\ tx' = [tx EXCEPT ![p] = TxRollback(@, 1)]
             /\ Return(p, Err("store"))
             /\ UNCHANGED <<entry, lastEntryID>>
        ELSE /\ entry' = entry \cup InsertedEntries(req[p].entries, loc[p].categories)
             /\ lastEntryID' = lastEntryID + Len(req[p].entries)
             /\ Return(p, [NoRet EXCEPT !.err = TxCommitErr(tx[p], 1)])
             /\ tx' = [tx EXCEPT ![p] = TxCommit(@, 1)]
    /\ UNCHANGED <<category, lastCategoryID, scanOrder, req, loc, pre, rep, calls>>

(***************************************************************************)
(* CreateCategoryIfNotExists, as called by SaveEntry, by UpdateEntry and   *)
(* directly (it is a method of the EntryDao interface)                     *)
(***************************************************************************)
\* The model.Category the caller passes: built from the entry of the request.
CategoryArg(e) == [account_id |-> e.account_id, name |-> e.category, type |-> e.type]

\* Lines 506-508: the only validation of the argument.
CategoryTypeValid(c) == IsIncome(c.type) \/ IsExpense(c.type)

\* Where the caller continues once the category is resolved.
AfterCategory(op) ==
    CASE op = "SaveEntry" -> "InsertEntry"
      [] op = "UpdateEntry" -> "UpdateEntryRow"
      [] OTHER -> "done"

\* The transactions after CreateCategoryIfNotExists returned an error to its caller:
\* SaveEntry rolls its transaction back (lines 281-286), UpdateEntry returns at once
\* (lines 350-352), a direct caller has no transaction of its own.
TxAfterCategoryError(op, t) ==
    IF op = "SaveEntry" THEN TxRollback(t, 1) ELSE t

\* SaveEntry(e) (lines 266-286 with 501-514).
SaveEntryOf(p, e) ==
        /\ StartCall(p, [op |-> "SaveEntry", entries |-> <<e>>, ids |-> {}])
        /\ loc' = [loc EXCEPT ![p] = NoLoc]
        /\ IF CategoryTypeValid(CategoryArg(e))
           THEN /\ pc' = [pc EXCEPT ![p] = "FindCategory"]
                /\ ret' = [ret EXCEPT ![p] = NoRet]
                /\ tx' = [tx EXCEPT ![p] = TxBegin(TxBegin(<<>>))]
           ELSE /\ Return(p, Err("validation"))
                /\ tx' = [tx EXCEPT ![p] = TxAfterCategoryError("SaveEntry", TxBegin(<<>>))]
        /\ UNCHANGED <<category, entry, lastCategoryID, lastEntryID, scanOrder>>

\* POST /api/entry -> SaveEntry.
CallSaveEntry(p) == \E e \in EntryInputs : SaveEntryOf(p, e)

\* UpdateEntry(e) with e.ID = id (lines 333-352 with 501-514).
UpdateEntryOf(p, e, id) ==
        /\ StartCall(p, [op |-> "UpdateEntry", entries |-> <<[e EXCEPT !.id = id]>>, ids |-> {}])
        /\ loc' = [loc EXCEPT ![p] = NoLoc]
        /\ IF id = 0
           THEN /\ Return(p, Err("nil"))
                /\ tx' = [tx EXCEPT ![p] = <<>>]
           ELSE IF CategoryTypeValid(CategoryArg(e))
           THEN /\ pc' = [pc EXCEPT ![p] = "FindCategory"]
                /\ ret' = [ret EXCEPT ![p] = NoRet]
                /\ tx' = [tx EXCEPT ![p] = TxBegin(TxBegin(<<>>))]
           ELSE /\ Return(p, Err("validation"))
                /\ tx' = [tx EXCEPT ![p] = TxAfterCategoryError("UpdateEntry", TxBegin(<<>>))]
        /\ UNCHANGED <<category, entry, lastCategoryID, lastEntryID, scanOrder>>

\* PUT /api/entry -> UpdateEntry; ids of the request range over the ids handed out
\* so far, one unused id and the zero value.
CallUpdateEntry(p) ==
    \E e \in EntryInputs, id \in 0..(lastEntryID + 1) : UpdateEntryOf(p, e, id)

\* EntryDao.CreateCategoryIfNotExists called on its own (lines 501-514).
CallCreateCategoryIfNotExists(p) ==
    \E e \in EntryInputs :
        /\ StartCall(p, [op |-> "CreateCategoryIfNotExists", entries |-> <<e>>, ids |-> {}])
        /\ loc' = [loc EXCEPT ![p] = NoLoc]
        /\ IF CategoryTypeValid(CategoryArg(e))
           THEN /\ pc' = [pc EXCEPT ![p] = "FindCategory"]
                /\ ret' = [ret EXCEPT ![p] = NoRet]
                /\ tx' = [tx EXCEPT ![p] = TxBegin(<<>>)]
           ELSE /\ Return(p, Err("validation"))
                /\ tx' = [tx EXCEPT ![p] = <<>>]
        /\ UNCHANGED <<category, entry, lastCategoryID, lastEntryID, scanOrder>>

\* Lines 516-549: the lookup; a row found is returned as the category (Commit first).
FindCategory(p) ==
    /\ pc[p] = "FindCategory"
    /\ LET c == CategoryArg(req[p].entries[1])
           found == SelectCategory(c.account_id, c.name)
           next == AfterCategory(req[p].op)
       IN IF found # NoRow
          THEN /\ tx' = [tx EXCEPT ![p] = TxCommit(@, Len(@))]
               /\ loc' = [loc EXCEPT ![p].category = found]
               /\ pc' = [pc EXCEPT ![p] = next]
               /\ ret' = [ret EXCEPT ![p] =
                            IF next = "done" THEN [NoRet EXCEPT !.category = found] ELSE @]
          ELSE /\ pc' = [pc EXCEPT ![p] = "InsertCategory"]
               /\ UNCHANGED <<tx, loc, ret>>
    /\ UNCHANGED <<category, entry, lastCategoryID, lastEntryID, scanOrder, req, pre, rep, calls>>

\* Lines 551-583: the insert; the category returned carries the caller's name and type.
InsertCategory(p) ==
    /\ pc[p] = "InsertCategory"
    /\ LET c == CategoryArg(req[p].entries[1])
           next == AfterCategory(req[p].op)
           new == [id |-> lastCategoryID + 1, account_id |-> c.account_id,
                   name |-> c.name, type |-> c.type]
       IN \E fail \in BOOLEAN :
            IF fail
            THEN /\ tx' = [tx EXCEPT ![p] = TxAfterCategoryError(req[p].op, TxRollback(@, Len(@)))]
                 /\ Return(p, Err("store"))
                 /\ UNCHANGED <<category, lastCategoryID, loc>>
            ELSE /\ category' = category \cup InsertedCategories(<<c>>)
                 /\ lastCategoryID' = lastCategoryID + 1
                 /\ tx' = [tx EXCEPT ![p] = TxCommit(@, Len(@))]
                 /\ loc' = [loc EXCEPT ![p].category = new]
                 /\ pc' = [pc EXCEPT ![p] = next]
                 /\ ret' = [ret EXCEPT ![p] =
                              IF next = "done" THEN [NoRet EXCEPT !.category = new] ELSE @]
    /\ UNCHANGED <<entry, lastEntryID, scanOrder, req, pre, rep, calls>>

(***************************************************************************)
(* SaveEntry, UpdateEntry: the statement on the entry table                *)
(***************************************************************************)
\* Lines 290-330: insert with category.ID, roll back on error, else commit and
\* assign the generated id.
InsertEntry(p) ==
    /\ pc[p] = "InsertEntry"
    /\ LET e == req[p].entries[1]
           row == [id |-> lastEntryID + 1,
                   account_id |-> e.account_id,
                   affected_account_id |-> e.affected_account_id,
                   type |-> e.type,
                   category |-> loc[p].category.id,
                   amount |-> e.amount,
                   date |-> e.date]
       IN \E fail \in BOOLEAN :
            IF fail
            THEN /\ tx' = [tx EXCEPT ![p] = TxRollback(@, 1)]
                 /\ Return(p, Err("store"))
                 /\ UNCHANGED <<entry, lastEntryID>>
            ELSE /\ entry' = entry \cup {row}
                 /\ lastEntryID' = lastEntryID + 1
                 /\ Return(p, [NoRet EXCEPT !.err = TxCommitErr(tx[p], 1), !.id = row.id])
                 /\ tx' = [tx EXCEPT ![p] = TxCommit(@, 1)]
    /\ UNCHANGED <<category, lastCategoryID, scanOrder, req, loc, pre, rep, calls>>

\* The update statement with the account predicate left out (WHERE id = ?).
EntryMatchesIdOnly(r, e) == r.id = e.id

\* WHERE id = ? AND account_id = ?
EntryMatches(r, e) == r.id = e.id /\ r.account_id = e.account_id

\* The update of the earlier handler, which also sets affected_account_id.
UpdatedRowAffected(r, e, categoryID) ==
    [r EXCEPT !.affected_account_id = e.affected_account_id, !.type = e.type,
              !.amount = e.amount, !.date = e.date, !.category = categoryID]

\* SET type, description, amount, date, category
UpdatedRow(r, e, categoryID) ==
    [r EXCEPT !.type = e.type, !.amount = e.amount, !.date = e.date,
              !.category = categoryID]

\* Lines 354-383: update, roll back on error, else commit; zero rows is "not found".
UpdateEntryRow(p) ==
    /\ pc[p] = "UpdateEntryRow"
    /\ LET e == req[p].entries[1]
           hit == {r \in entry : EntryMatches(r, e)}
       IN \E fail \in BOOLEAN :
            IF fail
            THEN /\ tx' = [tx EXCEPT ![p] = TxRollback(@, 1)]
                 /\ Return(p, Err("store"))
                 /\ UNCHANGED entry
            ELSE /\ entry' = (entry \ hit) \cup
                              {UpdatedRow(r, e, loc[p].category.id) : r \in hit}
                 /\ Return(p, IF TxCommitErr(tx[p], 1) # "" THEN Err(TxCommitErr(tx[p], 1))
                              ELSE IF Cardinality(hit) = 0 THEN Err("notfound")
                              ELSE NoRet)
                 /\ tx' = [tx EXCEPT ![p] = TxCommit(@, 1)]
    /\ UNCHANGED <<category, lastCategoryID, lastEntryID, scanOrder, req, loc, pre, rep, calls>>

(***************************************************************************)
(* DeleteEntries                                                           *)
(***************************************************************************)
\* The id lists of a delete request: ids among those handed out so far and one
\* unused id.
DeleteIdSets == SUBSET (1..(lastEntryID + 1))

\* Lines 586-615: one DELETE ... WHERE id IN (ids); rollback on error; then Commit is
\* called twice (lines 608 and 609) and the second call's error is returned.
CallDeleteEntries(p) ==
    \E ids \in DeleteIdSets, fail \in BOOLEAN :
        /\ StartCall(p, [op |-> "DeleteEntries", entries |-> <<>>, ids |-> ids])
        /\ loc' = [loc EXCEPT ![p] = NoLoc]
        /\ LET t0 == TxBegin(<<>>)
               hit == {r \in entry : r.id \in ids}
           IN IF fail
              THEN /\ tx' = [tx EXCEPT ![p] = TxRollback(t0, 1)]
                   /\ Return(p, Err("store"))
                   /\ UNCHANGED entry
              ELSE LET t1 == TxCommit(t0, 1)
                       err == TxCommitErr(t1, 1)
                   IN /\ entry' = entry \ hit
                      /\ tx' = [tx EXCEPT ![p] = TxCommit(t1, 1)]
                      /\ Return(p, IF err # "" THEN Err(err)
                                   ELSE [NoRet EXCEPT !.count = Cardinality(hit)])
        /\ UNCHANGED <<category, lastCategoryID, lastEntryID, scanOrder>>

Init ==
    /\ category = {}
    /\ entry = {}
    /\ lastCategoryID = 0
    /\ lastEntryID = 0
    /\ scanOrder \in {"asc", "desc"}
    /\ pc = [p \in Procs |-> "idle"]
    /\ req = [p \in Procs |-> NoReq]
    /\ loc = [p \in Procs |-> NoLoc]
    /\ tx = [p \in Procs |-> <<>>]
    /\ ret = [p \in Procs |-> NoRet]
    /\ pre = [p \in Procs |-> NoPre]
    /\ rep = [p \in Procs |-> 0]
    /\ calls = 0
    /\ cumulative_amount = {}
    /\ account = StoredAccounts
    /\ lastAccountID = Cardinality(StoredAccounts)
    /\ user = {}
    /\ lastUserID = 0

(***************************************************************************)
(* Specifications                                                          *)
(***************************************************************************)
\* The view is maintained by the store, not by the DAO: no statement writes it.
Step(p) ==
    /\ \/ CallSaveEntries(p)
       \/ FetchNamed(p)
       \/ InsertCategories(p)
       \/ Requery(p)
       \/ InsertEntries(p)
       \/ CallSaveEntry(p)
       \/ CallUpdateEntry(p)
       \/ CallCreateCategoryIfNotExists(p)
       \/ FindCategory(p)
       \/ InsertCategory(p)
       \/ InsertEntry(p)
       \/ UpdateEntryRow(p)
       \/ CallDeleteEntries(p)
    /\ UNCHANGED <<cumulative_amount, account, lastAccountID, user, lastUserID>>

\* One request at a time: every call runs to completion before the next is made.
Next == Step("p1")

Spec == Init /\ [][Next]_vars

\* Two request handlers at once: their statements interleave.
NextConc == \E p \in Procs : Step(p)

SpecConc == Init /\ [][NextConc]_vars

(***************************************************************************)
(* AccountDao: SaveAccount, UpdateAccount, DeleteAccounts.  Their one      *)
(* statement runs on the transaction (RunWith(tx)) and is committed once.  *)
(***************************************************************************)
AccountNames == {"cash", "bank"}

\* DELETE FROM account WHERE id IN (ids), taken over every row of the table.
AccountsHitAny(ids) == IF ids = {} THEN {} ELSE account

\* DELETE FROM account WHERE id IN (ids): the rows the statement removes.
AccountsHit(ids) == {a \in account : a.id \in ids}

\* SaveAccount: INSERT INTO account; rollback on error, else commit.
CallSaveAccount(p) ==
    \E name \in AccountNames, fail \in BOOLEAN :
        /\ StartCall(p, [op |-> "SaveAccount", entries |-> <<>>, ids |-> {}, name |-> name])
        /\ loc' = [loc EXCEPT ![p] = NoLoc]
        /\ IF fail
           THEN /\ tx' = [tx EXCEPT ![p] = TxRollback(TxBegin(<<>>), 1)]
                /\ Return(p, Err("store"))
                /\ UNCHANGED <<account, lastAccountID>>
           ELSE /\ tx' = [tx EXCEPT ![p] = TxCommit(TxBegin(<<>>), 1)]
                /\ account' = account \cup {[id |-> lastAccountID + 1, name |-> name]}
                /\ lastAccountID' = lastAccountID + 1
                /\ Return(p, [NoRet EXCEPT !.id = lastAccountID + 1])
        /\ UNCHANGED <<category, entry, lastCategoryID, lastEntryID, scanOrder,
                       cumulative_amount, user, lastUserID>>

\* UpdateAccount: id 0 is refused before Begin; UPDATE account SET name WHERE id = ?;
\* rollback on error, else commit; no row affected is "Account not found".
CallUpdateAccount(p) ==
    \E id \in 0..(lastAccountID + 1), name \in AccountNames, fail \in BOOLEAN :
        /\ StartCall(p, [op |-> "UpdateAccount", entries |-> <<>>, ids |-> {id}, name |-> name])
        /\ loc' = [loc EXCEPT ![p] = NoLoc]
        /\ IF id = 0
           THEN /\ tx' = [tx EXCEPT ![p] = <<>>]
                /\ Return(p, Err("nil"))
                /\ UNCHANGED account
           ELSE IF fail
           THEN /\ tx' = [tx EXCEPT ![p] = TxRollback(TxBegin(<<>>), 1)]
                /\ Return(p, Err("store"))
                /\ UNCHANGED account
           ELSE /\ tx' = [tx EXCEPT ![p] = TxCommit(TxBegin(<<>>), 1)]
                /\ account' = {IF a.id = id THEN [a EXCEPT !.name = name] ELSE a : a \in account}
                /\ Return(p, IF \E a \in account : a.id = id THEN NoRet ELSE Err("notfound"))
        /\ UNCHANGED <<category, entry, lastCategoryID, lastEntryID, scanOrder,
                       cumulative_amount, lastAccountID, user, lastUserID>>

\* DeleteAccounts(ids), ids among those handed out so far and one unused id:
\* DELETE FROM account WHERE id IN (ids); rollback on error, else commit and return
\* RowsAffected.
CallDeleteAccounts(p) ==
    \E ids \in SUBSET (1..(lastAccountID + 1)), fail \in BOOLEAN :
        /\ StartCall(p, [op |-> "DeleteAccounts", entries |-> <<>>, ids |-> ids])
        /\ loc' = [loc EXCEPT ![p] = NoLoc]
        /\ IF fail
           THEN /\ tx' = [tx EXCEPT ![p] = TxRollback(TxBegin(<<>>), 1)]
                /\ Return(p, Err("store"))
                /\ UNCHANGED account
           ELSE /\ tx' = [tx EXCEPT ![p] = TxCommit(TxBegin(<<>>), 1)]
                /\ account' = account \ AccountsHit(ids)
                /\ Return(p, [NoRet EXCEPT !.count = Cardinality(AccountsHit(ids))])
        /\ UNCHANGED <<category, entry, lastCategoryID, lastEntryID, scanOrder,
                       cumulative_amount, lastAccountID, user, lastUserID>>

\* The account calls next to the entry calls, one request at a time.
NextAccounts ==
    \/ CallSaveAccount("p1")
    \/ CallUpdateAccount("p1")
    \/ CallDeleteAccounts("p1")
    \/ /\ \/ CallSaveEntries("p1")
          \/ FetchNamed("p1")
          \/ InsertCategories("p1")
          \/ Requery("p1")
          \/ InsertEntries("p1")
          \/ CallSaveEntry("p1")
          \/ CallUpdateEntry("p1")
          \/ FindCategory("p1")
          \/ InsertCategory("p1")
          \/ InsertEntry("p1")
          \/ UpdateEntryRow("p1")
          \/ CallDeleteEntries("p1")
       /\ UNCHANGED <<cumulative_amount, account, lastAccountID, user, lastUserID>>

SpecAccounts == Init /\ [][NextAccounts]_vars

(***************************************************************************)
(* Users: the handlers InsertUser, DeleteUsers, UpdateUser and the UserDao *)
(* calls they make.  AdminIds, usernamesForIds and FindUserById run on the *)
(* pool (RunWith(d.db)); the INSERT, UPDATE and DELETE run on a            *)
(* transaction that holds nothing else, so each takes effect in one step.  *)
(* Requests are those that pass the decoding and the checks on empty name  *)
(* and username.                                                           *)
(***************************************************************************)
Usernames == {"ann", "bob"}

\* auth.MustAuthenticateUser(r): passes for a request that carries a valid session
\* and panics for any other.
MustAuthenticateUser(r) == r.session

\* AdminIds: SELECT id FROM user WHERE admin = 1.
AdminIds == {u.id : u \in {x \in user : x.admin}}

\* The id lists of a delete request after sort.Slice: up to two ids, possibly the
\* same id twice, among those handed out so far and one unused id.
UserIdLists ==
    {<<>>} \cup {<<i>> : i \in 1..(lastUserID + 1)}
           \cup {l \in (1..(lastUserID + 1)) \X (1..(lastUserID + 1)) : l[1] <= l[2]}

Ids(ids) == {ids[i] : i \in 1..Len(ids)}

\* reflect.DeepEqual(adminIds, ids) of the two sorted slices.
DeepEqual(adminIds, ids) ==
    /\ Cardinality(adminIds) = Len(ids)
    /\ Ids(ids) = adminIds

\* The rows WHERE id IN (ids) selects.
UsersHit(ids) == {u \in user : u.id \in Ids(ids)}

\* The usernames collected from the map of usernamesForIds, written in id order.
UsernamesOf(rows) ==
    LET s == RowsAsc(rows) IN [i \in 1..Len(s) |-> s[i].username]

\* Handler.InsertUser up to SaveUser: AdminIds, and the session is required only
\* if there is an admin.
CallInsertUser(p) ==
    \E username \in Usernames, admin \in BOOLEAN, session \in BOOLEAN :
        LET r == [op |-> "InsertUser", entries |-> <<>>, ids |-> {}, session |-> session,
                  user |-> [id |-> 0, username |-> username, admin |-> admin]]
        IN /\ StartCall(p, r)
           /\ loc' = [loc EXCEPT ![p] = NoLoc]
           /\ tx' = [tx EXCEPT ![p] = <<>>]
           /\ IF AdminIds # {} /\ ~MustAuthenticateUser(r)
              THEN Return(p, Err("auth"))
              ELSE pc' = [pc EXCEPT ![p] = "SaveUser"] /\ UNCHANGED ret
           /\ UNCHANGED <<user, lastUserID>>

\* SaveUser: INSERT INTO user on the transaction, Commit; Rollback on an error.
SaveUser(p) ==
    /\ pc[p] = "SaveUser"
    /\ \E fail \in BOOLEAN :
          IF fail
          THEN /\ tx' = [tx EXCEPT ![p] = TxRollback(TxBegin(<<>>), 1)]
               /\ Return(p, Err("store"))
               /\ UNCHANGED <<user, lastUserID>>
          ELSE /\ tx' = [tx EXCEPT ![p] = TxCommit(TxBegin(<<>>), 1)]
               /\ user' = user \cup {[req[p].user EXCEPT !.id = lastUserID + 1]}
               /\ lastUserID' = lastUserID + 1
               /\ Return(p, [NoRet EXCEPT !.id = lastUserID + 1])
    /\ UNCHANGED <<req, loc, pre, rep, calls>>

\* Handler.DeleteUsers up to the DAO call: the session, AdminIds, and the refusal
\* when the sorted ids are exactly the sorted admin ids.
CallDeleteUsers(p) ==
    \E ids \in UserIdLists, session \in BOOLEAN :
        LET r == [op |-> "DeleteUsers", entries |-> <<>>, ids |-> Ids(ids), list |-> ids,
                  session |-> session]
        IN /\ StartCall(p, r)
           /\ loc' = [loc EXCEPT ![p] = NoLoc]
           /\ tx' = [tx EXCEPT ![p] = <<>>]
           /\ IF ~MustAuthenticateUser(r) THEN Return(p, Err("auth"))
              ELSE IF DeepEqual(AdminIds, ids) THEN Return(p, Err("admin"))
              ELSE pc' = [pc EXCEPT ![p] = "usernamesForIds"] /\ UNCHANGED ret
           /\ UNCHANGED <<user, lastUserID>>

\* DeleteUsers, lines 229-241: Begin, then usernamesForIds on the pool.
usernamesForIds(p) ==
    /\ pc[p] = "usernamesForIds"
    /\ tx' = [tx EXCEPT ![p] = TxBegin(<<>>)]
    /\ loc' = [loc EXCEPT ![p].usernames = UsernamesOf(UsersHit(req[p].list))]
    /\ pc' = [pc EXCEPT ![p] = "DeleteUserRows"]
    /\ UNCHANGED <<user, lastUserID, req, ret, pre, rep, calls>>

\* DeleteUsers, lines 243-270: DELETE FROM user WHERE id IN (ids) on the transaction;
\* Rollback unless RowsAffected is len(ids), else Commit and the usernames read
\* before.  loc.deleted remembers the rows the call removed.
DeleteUserRows(p) ==
    /\ pc[p] = "DeleteUserRows"
    /\ \E fail \in BOOLEAN :
          IF fail
          THEN /\ tx' = [tx EXCEPT ![p] = TxRollback(tx[p], 1)]
               /\ Return(p, Err("store"))
               /\ UNCHANGED <<user, loc>>
          ELSE IF Cardinality(UsersHit(req[p].list)) # Len(req[p].list)
          THEN /\ tx' = [tx EXCEPT ![p] = TxRollback(tx[p], 1)]
               /\ Return(p, Err("aborted"))
               /\ UNCHANGED <<user, loc>>
          ELSE /\ tx' = [tx EXCEPT ![p] = TxCommit(tx[p], 1)]
               /\ user' = user \ UsersHit(req[p].list)
               /\ loc' = [loc EXCEPT ![p].deleted = UsersHit(req[p].list)]
               /\ Return(p, [NoRet EXCEPT !.usernames = loc[p].usernames])
    /\ UNCHANGED <<lastUserID, req, pre, rep, calls>>

\* Handler.UpdateUser up to FindUserById: the session, AdminIds, and the refusal to
\* revoke the admin status of the only admin.
CallUpdateUser(p) ==
    \E id \in 0..(lastUserID + 1), username \in Usernames, admin \in BOOLEAN,
       session \in BOOLEAN :
        LET r == [op |-> "UpdateUser", entries |-> <<>>, ids |-> {id}, session |-> session,
                  user |-> [id |-> id, username |-> username, admin |-> admin]]
        IN /\ StartCall(p, r)
           /\ loc' = [loc EXCEPT ![p] = NoLoc]
           /\ tx' = [tx EXCEPT ![p] = <<>>]
           /\ IF ~MustAuthenticateUser(r) THEN Return(p, Err("auth"))
              ELSE IF AdminIds = {id} /\ ~admin THEN Return(p, Err("admin"))
              ELSE pc' = [pc EXCEPT ![p] = "FindUserById"] /\ UNCHANGED ret
           /\ UNCHANGED <<user, lastUserID>>

\* FindUserById: the row, or nil without an error when there is none.
FindUserById(p) ==
    /\ pc[p] = "FindUserById"
    /\ loc' = [loc EXCEPT ![p].oldUser =
                  IF \E u \in user : u.id = req[p].user.id
                  THEN CHOOSE u \in user : u.id = req[p].user.id
                  ELSE NoUser]
    /\ pc' = [pc EXCEPT ![p] = "UpdateUserRow"]
    /\ UNCHANGED <<user, lastUserID, req, ret, pre, rep, calls, tx>>

\* UserDao.UpdateUser and the rest of the handler: id 0 is refused; UPDATE user SET
\* username, name, admin WHERE id = ? on the transaction, Commit; no row affected
\* is "User not found"; then the handler reads oldUser.Username, which panics on
\* the nil of a user that FindUserById did not find.
UpdateUserRow(p) ==
    /\ pc[p] = "UpdateUserRow"
    /\ \E fail \in BOOLEAN :
          LET u == req[p].user
              hit == {x \in user : x.id = u.id}
          IN IF u.id = 0
             THEN /\ UNCHANGED <<user, tx>>
                  /\ Return(p, Err("nil"))
             ELSE IF fail
             THEN /\ tx' = [tx EXCEPT ![p] = TxRollback(TxBegin(<<>>), 1)]
                  /\ Return(p, Err("store"))
                  /\ UNCHANGED user
             ELSE /\ tx' = [tx EXCEPT ![p] = TxCommit(TxBegin(<<>>), 1)]
                  /\ user' = (user \ hit) \cup {u : x \in hit}
                  /\ Return(p, IF hit = {} THEN Err("notfound")
                               ELSE IF loc[p].oldUser = NoUser THEN Err("panic")
                               ELSE NoRet)
    /\ UNCHANGED <<lastUserID, req, loc, pre, rep, calls>>

\* The user tables the requests find: none, one admin, an admin and another user,
\* two admins.
UserTables ==
    {{},
     {[id |-> 1, username |-> "ann", admin |-> TRUE]},
     {[id |-> 1, username |-> "ann", admin |-> TRUE], [id |-> 2, username |-> "bob", admin |-> FALSE]},
     {[id |-> 1, username |-> "ann", admin |-> TRUE], [id |-> 2, username |-> "bob", admin |-> TRUE]}}

InitUsers ==
    /\ category = {}
    /\ entry = {}
    /\ lastCategoryID = 0
    /\ lastEntryID = 0
    /\ scanOrder = "asc"
    /\ pc = [p \in Procs |-> "idle"]
    /\ req = [p \in Procs |-> NoReq]
    /\ loc = [p \in Procs |-> NoLoc]
    /\ tx = [p \in Procs |-> <<>>]
    /\ ret = [p \in Procs |-> NoRet]
    /\ pre = [p \in Procs |-> NoPre]
    /\ rep = [p \in Procs |-> 0]
    /\ calls = 0
    /\ cumulative_amount = {}
    /\ account = StoredAccounts
    /\ lastAccountID = Cardinality(StoredAccounts)
    /\ user \in UserTables
    /\ lastUserID = Cardinality(user)

StepUsers(p) ==
    /\ \/ CallInsertUser(p)
       \/ SaveUser(p)
       \/ CallDeleteUsers(p)
       \/ usernamesForIds(p)
       \/ DeleteUserRows(p)
       \/ CallUpdateUser(p)
       \/ FindUserById(p)
       \/ UpdateUserRow(p)
    /\ UNCHANGED <<category, entry, lastCategoryID, lastEntryID, scanOrder,
                   cumulative_amount, account, lastAccountID>>

NextUsers == \E p \in Procs : StepUsers(p)

SpecUsers == InitUsers /\ [][NextUsers]_vars

(***************************************************************************)
(* Stored ledgers                                                          *)
(***************************************************************************)
\* The ledgers made of at most MaxWork of the given entries, with ids in insertion
\* order.
LedgersOf(inputs) ==
    UNION {{{[id |-> i, account_id |-> f[i].account_id,
              affected_account_id |-> f[i].affected_account_id, type |-> f[i].type,
              category |-> f[i].category, amount |-> f[i].amount, date |-> f[i].date] :
                i \in 1..k} :
            f \in [1..k -> inputs]} :
        k \in 0..MaxWork}

(***************************************************************************)
(* Calendar: dates are written yyyymmdd, which orders them as the store    *)
(* orders its DATE column                                                  *)
(***************************************************************************)
DateOf(y, m, d) == y * 10000 + m * 100 + d
YearOf(date) == date \div 10000
MonthOf(date) == (date \div 100) % 100

IsLeap(y) == (y % 4 = 0 /\ y % 100 # 0) \/ y % 400 = 0

DaysIn(y, m) ==
    IF m = 2 THEN (IF IsLeap(y) THEN 29 ELSE 28)
    ELSE IF m \in {4, 6, 9, 11} THEN 30 ELSE 31

\* ForMonth: the first day of the month and startDate.AddDate(0, 1, -1), its last day.
ForMonth(month, year) ==
    [start |-> DateOf(year, month, 1), end |-> DateOf(year, month, DaysIn(year, month))]

(***************************************************************************)
(* The ledger as its clients use it: insert, update, list and export of    *)
(* entries with the fields a request may carry                             *)
(***************************************************************************)
LedgerYear == 2024
LedgerMonths == {1, 2}
LedgerDates == {DateOf(LedgerYear, 1, 31), DateOf(LedgerYear, 2, 1)}
\* Handler.InsertEntry and Handler.UpdateEntry decode any decimal into entry.Amount.
LedgerAmounts == {-1, 2}

\* The entries of the requests: an entry of type Transfer names the other account
\* as the affected account, the other types name none (0 stands for NULL); the
\* negative amount comes with type Income.
LedgerInputs ==
    {[EntryOf(0, x[1], x[2], "Food") EXCEPT
            !.affected_account_id = x[3], !.amount = x[4], !.date = x[5]] :
        x \in {y \in AccountIDs \X Types \X (AccountIDs \cup {0}) \X LedgerAmounts \X LedgerDates :
                  /\ IF y[2] = Transfer THEN y[3] \notin {0, y[1]} ELSE y[3] = 0
                  /\ y[4] < 0 => y[2] = Income}}

\* The date ranges of the export requests.
ExportRanges == {[start |-> d, end |-> DateOf(LedgerYear, 2, 1)] : d \in LedgerDates}

\* Handler.InsertEntry: POST /api/entry with any entry.
InsertEntryRequest(p) == \E e \in LedgerInputs : SaveEntryOf(p, e)

\* Handler.UpdateEntry: PUT /api/entry with any entry.
UpdateEntryRequest(p) ==
    \E e \in LedgerInputs, id \in 1..(lastEntryID + 1) : UpdateEntryOf(p, e, id)

\* The range predicate with the end of the range excluded (e.date < ?).
InRangeEndExcluded(r, accountId, tr) ==
    /\ \/ r.account_id = accountId
       \/ (r.affected_account_id # 0 /\ r.affected_account_id = accountId)
    /\ r.date >= tr.start
    /\ r.date < tr.end

\* WHERE (e.account_id = ? OR e.affected_account_id = ?) AND (e.date >= ? AND e.date <= ?)
InRange(r, accountId, tr) ==
    /\ \/ r.account_id = accountId
       \/ (r.affected_account_id # 0 /\ r.affected_account_id = accountId)
    /\ r.date >= tr.start
    /\ r.date <= tr.end

\* ORDER BY e.date DESC, e.id DESC
RECURSIVE DateIdDesc(_)
DateIdDesc(S) ==
    IF S = {} THEN <<>>
    ELSE LET m == CHOOSE r \in S :
                    \A q \in S : q.date < r.date \/ (q.date = r.date /\ q.id <= r.id)
         IN <<m>> \o DateIdDesc(S \ {m})

\* LEFT JOIN category c ON e.category = c.id: c.name, NULL ("") where no row joins.
CategoryNameOf(id) ==
    IF \E c \in category : c.id = id
    THEN (CHOOSE c \in category : c.id = id).name
    ELSE ""

\* EntryDao.Entries: the model.Entry values scanned from the rows, in row order.
Entries(accountId, tr) ==
    LET rows == DateIdDesc({r \in entry : InRange(r, accountId, tr)})
    IN [i \in 1..Len(rows) |-> [rows[i] EXCEPT !.category = CategoryNameOf(@)]]

\* Handler.SelectEntries: GET /api/entries?month=&year=&account=
SelectEntries(p) ==
    \E a \in AccountIDs, month \in LedgerMonths :
        /\ StartCall(p, [op |-> "Entries", entries |-> <<>>, ids |-> {},
                         account |-> a, range |-> ForMonth(month, LedgerYear)])
        /\ Return(p, [NoRet EXCEPT !.entries = Entries(a, ForMonth(month, LedgerYear))])
        /\ tx' = [tx EXCEPT ![p] = <<>>]
        /\ loc' = [loc EXCEPT ![p] = NoLoc]
        /\ UNCHANGED <<category, entry, lastCategoryID, lastEntryID, scanOrder>>

\* Lines 239-241 of the export handler: only an Expense is negated.
CsvAmount(e) == IF IsExpense(e.type) THEN 0 - e.amount ELSE e.amount

\* One record of the exported CSV: Date, Amount, Category.
CsvRecord(e) == [date |-> e.date, amount |-> CsvAmount(e), category |-> e.category]

\* Handler.ExportEntriesFromCSV: GET with account, fromDate and toDate.
ExportEntriesFromCSV(p) ==
    \E a \in AccountIDs, tr \in ExportRanges :
        /\ StartCall(p, [op |-> "Export", entries |-> <<>>, ids |-> {},
                         account |-> a, range |-> tr])
        /\ LET es == Entries(a, tr)
           IN Return(p, [NoRet EXCEPT !.entries = [i \in 1..Len(es) |-> CsvRecord(es[i])]])
        /\ tx' = [tx EXCEPT ![p] = <<>>]
        /\ loc' = [loc EXCEPT ![p] = NoLoc]
        /\ UNCHANGED <<category, entry, lastCategoryID, lastEntryID, scanOrder>>

\* EntryList.renderView: the amount shown for entry e in the list of account accountId.
ViewAmount(e, accountId) ==
    CASE e.type = Income -> e.amount
      [] e.type = Expense -> 0 - e.amount
      [] e.type = Transfer ->
            IF accountId = e.affected_account_id THEN e.amount ELSE 0 - e.amount
      [] OTHER -> e.amount

\* A ledger in use: it holds one transfer from account 2 to account 1, recorded by
\* the earlier InsertEntry handler, which stores a Transfer and gives it no category
\* (SaveEntry rejects the type; see CategoryTypeValid).
SeedEntry ==
    [id |-> 1, account_id |-> 2, affected_account_id |-> 1, type |-> Transfer,
     category |-> NoCategory, amount |-> 2, date |-> DateOf(LedgerYear, 1, 31)]

InitLedger ==
    /\ category = {}
    /\ entry = {SeedEntry}
    /\ lastCategoryID = 0
    /\ lastEntryID = 1
    /\ scanOrder \in {"asc", "desc"}
    /\ pc = [p \in Procs |-> "idle"]
    /\ req = [p \in Procs |-> NoReq]
    /\ loc = [p \in Procs |-> NoLoc]
    /\ tx = [p \in Procs |-> <<>>]
    /\ ret = [p \in Procs |-> NoRet]
    /\ pre = [p \in Procs |-> NoPre]
    /\ rep = [p \in Procs |-> 0]
    /\ calls = 0
    /\ cumulative_amount = {}
    /\ account = StoredAccounts
    /\ lastAccountID = Cardinality(StoredAccounts)
    /\ user = {}
    /\ lastUserID = 0

NextLedger ==
    /\ \/ InsertEntryRequest("p1")
       \/ UpdateEntryRequest("p1")
       \/ FindCategory("p1")
       \/ InsertCategory("p1")
       \/ InsertEntry("p1")
       \/ UpdateEntryRow("p1")
       \/ SelectEntries("p1")
       \/ ExportEntriesFromCSV("p1")
    /\ UNCHANGED <<cumulative_amount, account, lastAccountID, user, lastUserID>>

SpecLedger == InitLedger /\ [][NextLedger]_vars

(***************************************************************************)
(* CSV import: texts are sequences of characters                           *)
(***************************************************************************)
Digit == <<"0", "1", "2", "3", "4", "5", "6", "7", "8", "9">>
UpperCase == <<"A", "B", "C", "D", "E", "F", "G", "H", "I", "J", "K", "L", "M",
               "N", "O", "P", "Q", "R", "S", "T", "U", "V", "W", "X", "Y", "Z">>
LowerCase == <<"a", "b", "c", "d", "e", "f", "g", "h", "i", "j", "k", "l", "m",
               "n", "o", "p", "q", "r", "s", "t", "u", "v", "w", "x", "y", "z">>

\* time.isDigit(s, i), with i counted from 1.
IsDigit(s, i) == i <= Len(s) /\ \E k \in 1..10 : Digit[k] = s[i]
DigitVal(c) == (CHOOSE k \in 1..10 : Digit[k] = c) - 1

Lower(c) ==
    IF \E k \in 1..26 : UpperCase[k] = c
    THEN LowerCase[CHOOSE k \in 1..26 : UpperCase[k] = c]
    ELSE c

Rest(s, n) == SubSeq(s, n + 1, Len(s))

\* time.getnum: one or two digits, exactly two when fixed.
GetNum(s, fixed) ==
    IF ~IsDigit(s, 1) THEN [ok |-> FALSE, n |-> 0, rest |-> s]
    ELSE IF ~IsDigit(s, 2)
         THEN IF fixed THEN [ok |-> FALSE, n |-> 0, rest |-> s]
              ELSE [ok |-> TRUE, n |-> DigitVal(s[1]), rest |-> Rest(s, 1)]
    ELSE [ok |-> TRUE, n |-> DigitVal(s[1]) * 10 + DigitVal(s[2]), rest |-> Rest(s, 2)]

\* time.shortMonthNames
ShortMonthNames ==
    << <<"J", "a", "n">>, <<"F", "e", "b">>, <<"M", "a", "r">>, <<"A", "p", "r">>,
       <<"M", "a", "y">>, <<"J", "u", "n">>, <<"J", "u", "l">>, <<"A", "u", "g">>,
       <<"S", "e", "p">>, <<"O", "c", "t">>, <<"N", "o", "v">>, <<"D", "e", "c">> >>

\* time.lookup: the month whose short name starts the text, letter case ignored; 0 if none.
LookupMonth(s) ==
    LET hits == {k \in 1..12 :
                    /\ Len(s) >= 3
                    /\ \A i \in 1..3 : Lower(s[i]) = Lower(ShortMonthNames[k][i])}
    IN IF hits = {} THEN 0 ELSE CHOOSE k \in hits : TRUE

\* The layouts of the import, each as the chunks time.Parse reads it in.
AcceptableLayouts ==
    << <<"2006", "-", "01", "-", "02">>,
       <<"2006", "-", "1", "-", "2">>,
       <<"2006", "-", "Jan", "-", "02">>,
       <<"2006", "-", "Jan", "-", "2">>,
       <<"2", "/", "01", "/", "2006">> >>

NoDate == [ok |-> FALSE, y |-> 0, m |-> 0, d |-> 0]

\* time.Parse(layout, value), chunk by chunk; acc holds the fields read so far.
RECURSIVE ParseChunks(_, _, _)
ParseChunks(layout, value, acc) ==
    IF layout = <<>>
    THEN IF value # <<>> THEN NoDate                      \* extra text
         ELSE IF acc.d < 1 \/ acc.d > DaysIn(acc.y, acc.m) THEN NoDate  \* day out of range
         ELSE [acc EXCEPT !.ok = TRUE]
    ELSE LET std == Head(layout)
         IN CASE std = "2006" ->
                    IF Len(value) < 4 \/ \E i \in 1..4 : ~IsDigit(value, i) THEN NoDate
                    ELSE ParseChunks(Tail(layout), Rest(value, 4),
                            [acc EXCEPT !.y = DigitVal(value[1]) * 1000 + DigitVal(value[2]) * 100
                                              + DigitVal(value[3]) * 10 + DigitVal(value[4])])
              [] std \in {"01", "1"} ->
                    LET g == GetNum(value, std = "01")
                    IN IF ~g.ok \/ g.n <= 0 \/ 12 < g.n THEN NoDate
                       ELSE ParseChunks(Tail(layout), g.rest, [acc EXCEPT !.m = g.n])
              [] std = "Jan" ->
                    IF LookupMonth(value) = 0 THEN NoDate
                    ELSE ParseChunks(Tail(layout), Rest(value, 3),
                                     [acc EXCEPT !.m = LookupMonth(value)])
              [] std \in {"02", "2"} ->
                    LET g == GetNum(value, std = "02")
                    IN IF ~g.ok THEN NoDate
                       ELSE ParseChunks(Tail(layout), g.rest, [acc EXCEPT !.d = g.n])
              [] OTHER ->
                    IF value # <<>> /\ Head(value) = std
                    THEN ParseChunks(Tail(layout), Tail(value), acc)
                    ELSE NoDate

TimeParse(layout, value) == ParseChunks(layout, value, [NoDate EXCEPT !.y = 0, !.m = 1, !.d = 1])

TwoDigits(n) == <<Digit[(n \div 10) + 1], Digit[(n % 10) + 1]>>

\* tDate.Format("2006-01-02")
FormatDate(t) ==
    TwoDigits(t.y \div 100) \o TwoDigits(t.y % 100) \o <<"-">> \o TwoDigits(t.m)
        \o <<"-">> \o TwoDigits(t.d)

\* Lines 161-168: the first layout that parses the text gives the date; "" if none does.
ImportDate(text) ==
    LET fits == {k \in 1..Len(AcceptableLayouts) : TimeParse(AcceptableLayouts[k], text).ok}
    IN IF fits = {} THEN <<>>
       ELSE FormatDate(TimeParse(AcceptableLayouts[CHOOSE k \in fits : \A j \in fits : k <= j], text))

\* The DATE the store makes of a yyyy-mm-dd string.
DateValue(s) ==
    DateOf(DigitVal(s[1]) * 1000 + DigitVal(s[2]) * 100 + DigitVal(s[3]) * 10 + DigitVal(s[4]),
           DigitVal(s[6]) * 10 + DigitVal(s[7]),
           DigitVal(s[9]) * 10 + DigitVal(s[10]))

\* decimal.NewFromString on whole numbers: an optional sign and at least one digit.
\* (Fractions and exponents are not among the texts of the model.)
ParseAmount(text) ==
    LET signed == text # <<>> /\ Head(text) \in {"-", "+"}
        digits == IF signed THEN Tail(text) ELSE text
        RECURSIVE Num(_)
        Num(ds) == IF ds = <<>> THEN 0
                   ELSE Num(SubSeq(ds, 1, Len(ds) - 1)) * 10 + DigitVal(ds[Len(ds)])
    IN IF digits = <<>> \/ \E i \in 1..Len(digits) : ~IsDigit(digits, i)
       THEN [ok |-> FALSE, value |-> 0]
       ELSE [ok |-> TRUE,
             value |-> IF signed /\ Head(text) = "-" THEN 0 - Num(digits) ELSE Num(digits)]

\* The loop body (lines 156-178): why a CSV row is skipped, "" if it is not.
RowError(row) ==
    IF row.date = <<>> \/ row.amount = <<>> THEN "mandatory"
    ELSE IF ImportDate(row.date) = <<>> THEN "date"
    ELSE IF ~ParseAmount(row.amount).ok THEN "amount"
    ELSE ""

\* Lines 180-204: the model.Entry of a row that is not skipped.
RowEntry(row, accountID) ==
    LET amount == ParseAmount(row.amount).value
    IN [id |-> 0, account_id |-> accountID, affected_account_id |-> 0,
        type |-> IF amount < 0 THEN Expense ELSE Income,
        category |-> row.category,
        amount |-> IF amount < 0 THEN 0 - amount ELSE amount,
        date |-> DateValue(ImportDate(row.date))]

\* The texts of the CSV files of the model.
CsvDates ==
    { <<>>,
      <<"2", "0", "2", "4", "-", "0", "1", "-", "0", "5">>,
      <<"2", "0", "2", "4", "-", "1", "-", "5">>,
      <<"2", "0", "2", "4", "-", "J", "a", "n", "-", "0", "5">>,
      <<"0", "5", "/", "0", "1", "/", "2", "0", "2", "4">>,
      <<"1", "3", "/", "1", "3", "/", "2", "0", "2", "4">> }
CsvAmounts == { <<>>, <<"5">>, <<"-", "5">>, <<"x">> }
\* A row varies in one column at a time: any date with the amount 5, or any amount
\* with the date 2024-01-05.
CsvRows ==
    {row \in [date : CsvDates, amount : CsvAmounts, category : {"Food"}] :
        \/ row.amount = <<"5">>
        \/ row.date = <<"2", "0", "2", "4", "-", "0", "1", "-", "0", "5">>}
\* The ledgers that are exported and imported again: incomes and expenses of
\* account 1, of amount 0 or 5, in its two categories.
RoundTripCategories ==
    {[id |-> 1, account_id |-> 1, name |-> "Pay", type |-> Income],
     [id |-> 2, account_id |-> 1, name |-> "Food", type |-> Expense]}

RoundTripInputs ==
    {[account_id |-> 1, affected_account_id |-> 0, type |-> c.type,
      category |-> c.id, amount |-> m, date |-> d] :
        c \in RoundTripCategories, m \in {0, 5}, d \in LedgerDates}

\* decimal.Decimal.String() of a whole number.
DecimalString(n) ==
    LET RECURSIVE NatString(_)
        NatString(k) == IF k < 10 THEN <<Digit[k + 1]>>
                        ELSE NatString(k \div 10) \o <<Digit[(k % 10) + 1]>>
    IN IF n < 0 THEN <<"-">> \o NatString(0 - n) ELSE NatString(n)

\* entry.Date: the DATE column as the store writes it, yyyy-mm-dd.
DateString(d) ==
    FormatDate([ok |-> TRUE, y |-> YearOf(d), m |-> MonthOf(d), d |-> d % 100])

\* Line 241 of the export handler: the record as the texts csvWriter.Write is given.
CsvLine(rec) ==
    [date |-> DateString(rec.date), amount |-> DecimalString(rec.amount),
     category |-> rec.category]

\* The lines an export of such a ledger can hold.
ExportedRows ==
    {CsvLine([date |-> x.date, amount |-> CsvAmount(x),
              category |-> (CHOOSE c \in RoundTripCategories : c.id = x.category).name]) :
        x \in RoundTripInputs}

\* The loop body applied to each row of the model for each account, computed once:
\* the reason the row is skipped, or else its entry.
LoopBody ==
    {[row |-> row, accountID |-> a, error |-> RowError(row),
      entry |-> IF RowError(row) = "" THEN RowEntry(row, a) ELSE EntryOf(0, a, 0, "")] :
        row \in CsvRows \cup ExportedRows, a \in AccountIDs}

RowOutcome(row, accountID) ==
    CHOOSE o \in LoopBody : o.row = row /\ o.accountID = accountID

\* entries after the loop over csvEntries.
RECURSIVE ImportedEntries(_, _)
ImportedEntries(rows, accountID) ==
    IF rows = <<>> THEN <<>>
    ELSE IF RowOutcome(Head(rows), accountID).error # ""
         THEN ImportedEntries(Tail(rows), accountID)
    ELSE <<RowOutcome(Head(rows), accountID).entry>> \o ImportedEntries(Tail(rows), accountID)

\* errorBuilder after the loop: the rows addError was called for, with the reason.
ErrorBuilder(rows) ==
    SelectSeq([i \in 1..Len(rows) |-> [row |-> i - 1, message |-> RowError(rows[i])]],
              LAMBDA e : e.message # "")


CsvFiles == UNION {[1..k -> CsvRows] : k \in 1..(MaxWork - calls)}

\* strconv.Atoi on texts without a sign: the number of a text of digits, else an
\* error and 0.
Atoi(text) ==
    IF text = <<>> \/ \E i \in 1..Len(text) : ~IsDigit(text, i)
    THEN [ok |-> FALSE, n |-> 0]
    ELSE [ok |-> TRUE, n |-> ParseAmount(text).value]

\* Lines 117-123, over the values of the form field affectedAccountID (none when
\* the field is absent): the null.Int is set from id only if Atoi returned an error.
AffectedAccountID(values) ==
    IF values # <<>> /\ ~Atoi(values[1]).ok
    THEN [valid |-> TRUE, int |-> Atoi(values[1]).n]
    ELSE [valid |-> FALSE, int |-> 0]

\* Line 198: every entry of the import gets the affectedAccountID; the table writes
\* NULL as 0.
WithAffected(entries, affectedAccountID) ==
    [i \in 1..Len(entries) |->
        [entries[i] EXCEPT !.affected_account_id =
            IF affectedAccountID.valid THEN affectedAccountID.int ELSE 0]]

\* Handler.ImportEntriesFromCSV: POST of a CSV file for an account; the entries of
\* the rows that were not skipped go to SaveEntries.
ImportEntriesFromCSV(p) ==
    \E a \in AccountIDs, rows \in CsvFiles, form \in { <<>>, << <<"2">> >>, << <<"x">> >> } :
        SaveEntriesOf(p, [op |-> "SaveEntries",
                          entries |-> WithAffected(ImportedEntries(rows, a), AffectedAccountID(form)),
                          ids |-> {}, csv |-> rows, form |-> form,
                          affectedAccountID |-> AffectedAccountID(form)])

\* What the import handler writes once SaveEntries has returned: checkError on the
\* DAO's error, else the entries as JSON.  errorBuilder is not written anywhere.
ImportResponse(r, rt) ==
    IF rt.err # "" THEN [status |-> "error"]
    ELSE [status |-> "ok", entries |-> r.entries]

NextImport ==
    /\ \/ ImportEntriesFromCSV("p1")
       \/ FetchNamed("p1")
       \/ InsertCategories("p1")
       \/ Requery("p1")
       \/ InsertEntries("p1")
    /\ UNCHANGED <<cumulative_amount, account, lastAccountID, user, lastUserID>>

SpecImport == Init /\ [][NextImport]_vars

(***************************************************************************)
(* Round trip: the export of account 1 imported into account 2             *)
(***************************************************************************)
\* The file of the last export posted to the import handler for account 2, without
\* an affectedAccountID.  exported remembers the entries the file was written from.
ImportExported(p) ==
    /\ pc[p] = "done"
    /\ req[p].op = "Export"
    /\ ret[p].entries # <<>>
    /\ LET lines == [i \in 1..Len(ret[p].entries) |-> CsvLine(ret[p].entries[i])]
       IN SaveEntriesOf(p, [op |-> "SaveEntries",
                            entries |-> WithAffected(ImportedEntries(lines, 2),
                                                     AffectedAccountID(<<>>)),
                            ids |-> {}, csv |-> lines,
                            exported |-> Entries(req[p].account, req[p].range)])

InitRoundTrip ==
    /\ category = RoundTripCategories
    /\ entry \in LedgersOf(RoundTripInputs)
    /\ lastCategoryID = Cardinality(RoundTripCategories)
    /\ lastEntryID = Cardinality(entry)
    /\ scanOrder = "asc"
    /\ pc = [p \in Procs |-> "idle"]
    /\ req = [p \in Procs |-> NoReq]
    /\ loc = [p \in Procs |-> NoLoc]
    /\ tx = [p \in Procs |-> <<>>]
    /\ ret = [p \in Procs |-> NoRet]
    /\ pre = [p \in Procs |-> NoPre]
    /\ rep = [p \in Procs |-> 0]
    /\ calls = 0
    /\ cumulative_amount = {}
    /\ account = StoredAccounts
    /\ lastAccountID = Cardinality(StoredAccounts)
    /\ user = {}
    /\ lastUserID = 0

NextRoundTrip ==
    /\ \/ ExportEntriesFromCSV("p1")
       \/ ImportExported("p1")
       \/ FetchNamed("p1")
       \/ InsertCategories("p1")
       \/ Requery("p1")
       \/ InsertEntries("p1")
    /\ UNCHANGED <<cumulative_amount, account, lastAccountID, user, lastUserID>>

SpecRoundTrip == InitRoundTrip /\ [][NextRoundTrip]_vars

(***************************************************************************)
(* Charts: the expense range read from the view cumulative_amount          *)
(***************************************************************************)
ChartYears == {2023, 2024}
ChartMonths == {<<2023, 12>>, <<2024, 1>>, <<2024, 2>>}
ChartAmounts == {-2, 1, 5}

\* The contents the view may have: for account 1, at most one row per month.
Projections ==
    {{[account_id |-> 1, year |-> ym[1], month |-> ym[2], amount |-> f[ym]] :
            ym \in {x \in ChartMonths : f[x] # 0}} :
        f \in [ChartMonths -> ChartAmounts \cup {0}]}

\* MIN(amount) / MAX(amount) over a set of rows.
MinAmount(rows) == CHOOSE m \in {r.amount : r \in rows} : \A r \in rows : m <= r.amount
MaxAmount(rows) == CHOOSE m \in {r.amount : r \in rows} : \A r \in rows : r.amount <= m

\* The rows the statement aggregates: FROM cumulative_amount, without a WHERE.
RangeRows(year) == cumulative_amount

\* The rows of the view for one year: WHERE YEAR(CONCAT(month, "-01")) = year,
\* as in GetMonthStartBalanceForYear.
RowsOfYear(year) == {r \in cumulative_amount : r.year = year}

\* GetMininumAndMaximumExpenseForYear(year): over no rows MIN and MAX are NULL and
\* the Scan into float64 fails.
GetMininumAndMaximumExpenseForYear(p) ==
    \E year \in ChartYears :
        /\ StartCall(p, [op |-> "ExpenseRange", entries |-> <<>>, ids |-> {}, year |-> year])
        /\ Return(p, IF RangeRows(year) = {} THEN Err("scan")
                     ELSE [NoRet EXCEPT !.range = [min |-> MinAmount(RangeRows(year)),
                                                   max |-> MaxAmount(RangeRows(year))]])
        /\ tx' = [tx EXCEPT ![p] = <<>>]
        /\ loc' = [loc EXCEPT ![p] = NoLoc]
        /\ UNCHANGED <<category, entry, lastCategoryID, lastEntryID, scanOrder, cumulative_amount,
                       account, lastAccountID, user, lastUserID>>

InitCharts ==
    /\ category = {}
    /\ entry = {}
    /\ lastCategoryID = 0
    /\ lastEntryID = 0
    /\ scanOrder = "asc"
    /\ pc = [p \in Procs |-> "idle"]
    /\ req = [p \in Procs |-> NoReq]
    /\ loc = [p \in Procs |-> NoLoc]
    /\ tx = [p \in Procs |-> <<>>]
    /\ ret = [p \in Procs |-> NoRet]
    /\ pre = [p \in Procs |-> NoPre]
    /\ rep = [p \in Procs |-> 0]
    /\ calls = 0
    /\ cumulative_amount \in Projections
    /\ account = StoredAccounts
    /\ lastAccountID = Cardinality(StoredAccounts)
    /\ user = {}
    /\ lastUserID = 0

NextCharts == GetMininumAndMaximumExpenseForYear("p1")

SpecCharts == InitCharts /\ [][NextCharts]_vars

(***************************************************************************)
(* Charts: the totals per category of one month                            *)
(***************************************************************************)
\* The categories of the stored ledgers: two expense categories of account 1.
TotalsCategories ==
    {[id |-> 1, account_id |-> 1, name |-> "Food", type |-> Expense],
     [id |-> 2, account_id |-> 1, name |-> "Rent", type |-> Expense]}

\* The expense rows a stored ledger is made of.
TotalsInputs ==
    {[account_id |-> 1, affected_account_id |-> 0, type |-> Expense,
      category |-> c.id, amount |-> m, date |-> d] :
        c \in TotalsCategories, m \in {1, 2}, d \in {20230105, 20240105}}

\* SUM(amount) over a set of rows.
RECURSIVE SumAmount(_)
SumAmount(rows) ==
    IF rows = {} THEN 0
    ELSE LET r == CHOOSE x \in rows : TRUE
         IN  r.amount + SumAmount(rows \ {r})

\* The rows the statement aggregates: WHERE e.type = ? AND e.accountId = ? AND
\* MONTH(e.date) = ?, with no condition on the year.
TotalsRows(accountId, month, categoryType) ==
    {e \in entry : /\ e.type = categoryType
                   /\ e.account_id = accountId
                   /\ MonthOf(e.date) = month}

\* The result set of the statement when the server runs it: SUM(amount) without
\* GROUP BY folds all selected rows into one row, whose other columns are taken
\* from any one of them.
AggregateRows(accountId, month, categoryType) ==
    {[category |-> e.category, amount |-> SumAmount(TotalsRows(accountId, month, categoryType))] :
        e \in TotalsRows(accountId, month, categoryType)}

\* GetTotalExpensePerCategoryForMonth(accountId, month, categoryType).  The server
\* rejects the statement where it does not know the column e.accountId (the other
\* statements name it e.account_id) or where sql_mode has ONLY_FULL_GROUP_BY;
\* otherwise it returns one aggregate row, all NULL over no rows, which the Scan
\* into int64/string/float64 rejects.
GetTotalExpensePerCategoryForMonth(p) ==
    \E accountId \in {1}, month \in {1, 2}, categoryType \in {Expense} :
        /\ StartCall(p, [op |-> "CategoryTotals", entries |-> <<>>, ids |-> {},
                         account |-> accountId, month |-> month, type |-> categoryType])
        /\ \/ Return(p, Err("query"))
           \/ /\ TotalsRows(accountId, month, categoryType) = {}
              /\ Return(p, Err("scan"))
           \/ \E row \in AggregateRows(accountId, month, categoryType) :
                 Return(p, [NoRet EXCEPT !.summaries = {row}])
        /\ tx' = [tx EXCEPT ![p] = <<>>]
        /\ loc' = [loc EXCEPT ![p] = NoLoc]
        /\ UNCHANGED <<category, entry, lastCategoryID, lastEntryID, scanOrder, cumulative_amount,
                       account, lastAccountID, user, lastUserID>>

InitTotals ==
    /\ category = TotalsCategories
    /\ entry \in LedgersOf(TotalsInputs)
    /\ lastCategoryID = 2
    /\ lastEntryID = Cardinality(entry)
    /\ scanOrder = "asc"
    /\ pc = [p \in Procs |-> "idle"]
    /\ req = [p \in Procs |-> NoReq]
    /\ loc = [p \in Procs |-> NoLoc]
    /\ tx = [p \in Procs |-> <<>>]
    /\ ret = [p \in Procs |-> NoRet]
    /\ pre = [p \in Procs |-> NoPre]
    /\ rep = [p \in Procs |-> 0]
    /\ calls = 0
    /\ cumulative_amount = {}
    /\ account = StoredAccounts
    /\ lastAccountID = Cardinality(StoredAccounts)
    /\ user = {}
    /\ lastUserID = 0

NextTotals == GetTotalExpensePerCategoryForMonth("p1")

SpecTotals == InitTotals /\ [][NextTotals]_vars

(***************************************************************************)
(* The paged listing: Handler.SelectEntries of entry.go                    *)
(***************************************************************************)
\* The package constant pageLength: entries per page.
PageLength == 2

\* SELECT CEIL(COUNT( * ) / pageLength) FROM entry WHERE account_id = ? OR
\* affected_account_id = ?.
MaxPage(accountID) ==
    (Cardinality({e \in entry : e.account_id = accountID \/ e.affected_account_id = accountID})
        + PageLength - 1) \div PageLength

\* Lines 76-80: page 0 becomes 1, a page above maxPage becomes maxPage.
PageUsed(page, maxPage) ==
    IF page = 0 THEN 1
    ELSE IF page > maxPage THEN maxPage
    ELSE page

\* Handler.SelectEntries: page is strToInt of the query parameter, the number the
\* text spells and 0 for any other text; the account must exist; then maxPage, the
\* page used and the offset of the LIMIT ? OFFSET ? query, which the server rejects
\* when the offset is negative.
SelectEntriesPaged(p) ==
    \E accountID \in 1..(lastAccountID + 1), page \in -1..3 :
        /\ StartCall(p, [op |-> "Page", entries |-> <<>>, ids |-> {}, account |-> accountID,
                         page |-> page])
        /\ IF ~ \E a \in account : a.id = accountID
           THEN Return(p, Err("account"))
           ELSE LET maxPage == MaxPage(accountID)
                    used == PageUsed(page, maxPage)
                    offset == (used - 1) * PageLength
                    paging == [page |-> used, maxPage |-> maxPage, offset |-> offset]
                IN Return(p, [NoRet EXCEPT !.err = IF offset < 0 THEN "query" ELSE "",
                                           !.paging = paging])
        /\ tx' = [tx EXCEPT ![p] = <<"rolledback">>]
        /\ loc' = [loc EXCEPT ![p] = NoLoc]
        /\ UNCHANGED <<category, entry, lastCategoryID, lastEntryID, scanOrder, cumulative_amount,
                       account, lastAccountID, user, lastUserID>>

NextPages == SelectEntriesPaged("p1")

SpecPages == InitTotals /\ [][NextPages]_vars

(***************************************************************************)
(* Properties                                                              *)
(***************************************************************************)
Done(p, op) == pc[p] = "done" /\ req[p].op = op
Failed(p) == ret[p].err # ""

SameTriple(c, d) ==
    c.account_id = d.account_id /\ c.name = d.name /\ c.type = d.type

\* The categories of table T with the triple (a, n, t).
WithTriple(T, a, n, t) ==
    {c \in T : c.account_id = a /\ c.name = n /\ c.type = t}

\* How often the save request r names the category (n, t) of account a.
Mentions(r, a, n, t) ==
    Cardinality({i \in 1..Len(r.entries) :
        /\ r.entries[1].account_id = a
        /\ r.entries[i].category = n
        /\ r.entries[i].type = t})

\* C1: when two save calls (SaveEntries or SaveEntry) that each name the same
\* category (n, t), n not empty, of the same account once, neither of which saw
\* that category when it was made, have both completed, at most one category
\* with the triple (account, n, t) exists - whatever the interleaving of their
\* statements.
C1_NoDuplicateCategoryUnderRace ==
    \A a \in AccountIDs, n \in Names \ {""}, t \in Types :
        (\A p \in Procs :
            /\ pc[p] = "done"
            /\ req[p].op \in {"SaveEntries", "SaveEntry"}
            /\ Mentions(req[p], a, n, t) = 1
            /\ WithTriple(pre[p].category, a, n, t) = {})
        => Cardinality(WithTriple(category, a, n, t)) <= 1

\* C2: with calls made one at a time, the category table never holds two rows
\* with the same (account_id, name, type), name not empty.
C2_CategoryTripleUnique ==
    \A c, d \in category : (c.name # "" /\ SameTriple(c, d)) => c.id = d.id

\* Every entry of request r names a category.
AllNamed(r) == \A i \in 1..Len(r.entries) : r.entries[i].category # ""

\* C3: when SaveEntries, given a batch whose entries all name a category, returns
\* the error of its failed entry insert, the category and entry tables are what
\* they were before the call.
C3_SaveEntriesAtomic ==
    (/\ Done("p1", "SaveEntries")
     /\ AllNamed(req["p1"])
     /\ Failed("p1")
     /\ tx["p1"][1] = "rolledback")
    => (category = pre["p1"].category /\ entry = pre["p1"].entry)

\* C4: when SaveEntry of an entry that names a category returns an error, neither
\* a category nor an entry of the call persists.
C4_SaveEntryAtomic ==
    (Done("p1", "SaveEntry") /\ AllNamed(req["p1"]) /\ Failed("p1"))
    => (category = pre["p1"].category /\ entry = pre["p1"].entry)

\* C5: when UpdateEntry of an entry that names a category returns an error, no
\* category created by the call persists.
C5_UpdateEntryOneTransaction ==
    (Done("p1", "UpdateEntry") /\ AllNamed(req["p1"]) /\ Failed("p1"))
    => category = pre["p1"].category

\* C6: a successful CreateCategoryIfNotExists that directly follows a successful
\* one with the same arguments returns the same category id and inserts nothing.
C6_ResolveIdempotent ==
    (Done("p1", "CreateCategoryIfNotExists") /\ rep["p1"] # 0 /\ ~Failed("p1"))
    => (ret["p1"].category.id = rep["p1"] /\ category = pre["p1"].category)

\* C6 witness: the second of two identical successful calls has returned.
C6_Witness ==
    /\ Done("p1", "CreateCategoryIfNotExists")
    /\ rep["p1"] # 0
    /\ ~Failed("p1")
    /\ ret["p1"].category \in category

\* C7: a successful CreateCategoryIfNotExists for a name that is not empty
\* returns a stored category with exactly the requested account, name and type:
\* the one that existed before the call if there was one (and then nothing is
\* inserted), else the single one it inserted.
C7_ResolveReturnsRequestedTriple ==
    (Done("p1", "CreateCategoryIfNotExists") /\ AllNamed(req["p1"]) /\ ~Failed("p1"))
    => LET c == CategoryArg(req["p1"].entries[1])
           r == ret["p1"].category
           old == WithTriple(pre["p1"].category, c.account_id, c.name, c.type)
       IN /\ SameTriple(r, c)
          /\ r \in category
          /\ IF old # {}
             THEN r \in old /\ category = pre["p1"].category
             ELSE category = pre["p1"].category \cup {r}

\* C8: CreateCategoryIfNotExists with a type other than Income and Expense, or
\* with an empty name, returns a validation error and leaves the category table
\* as it was (calls on which the store itself failed set aside).
C8_ResolveValidates ==
    LET c == CategoryArg(req["p1"].entries[1])
    IN (/\ Done("p1", "CreateCategoryIfNotExists")
        /\ ret["p1"].err # "store"
        /\ (~CategoryTypeValid(c) \/ c.name = ""))
       => (ret["p1"].err = "validation" /\ category = pre["p1"].category)

\* C9: SaveEntry of an entry without a category name (of any type) succeeds,
\* adds exactly one entry row, which references no category, and creates no
\* category (calls on which the store itself failed set aside).
C9_SaveEntrySkipsResolution ==
    (/\ Done("p1", "SaveEntry")
     /\ ret["p1"].err # "store"
     /\ req["p1"].entries[1].category = "")
    => /\ ~Failed("p1")
       /\ category = pre["p1"].category
       /\ \E row \in entry :
            /\ row.id = ret["p1"].id
            /\ row.category = NoCategory
            /\ row \notin pre["p1"].entry
            /\ entry = pre["p1"].entry \cup {row}

\* C10: after a successful SaveEntries the row inserted for each entry of the
\* batch references a category with the entry's own account, category name and
\* type if the entry names a category, and no category otherwise.
C10_BatchEntriesReferenceResolved ==
    (Done("p1", "SaveEntries") /\ ~Failed("p1"))
    => \A i \in 1..Len(req["p1"].entries) :
          LET e == req["p1"].entries[i]
          IN \E row \in entry :
                /\ row.id = pre["p1"].lastEntryID + i
                /\ IF e.category # ""
                   THEN \E c \in category :
                            /\ c.id = row.category
                            /\ c.account_id = e.account_id
                            /\ c.name = e.category
                            /\ c.type = e.type
                   ELSE row.category = NoCategory

(***************************************************************************)
(* The HTTP handlers over the DAO: what the client is told                 *)
(***************************************************************************)
\* Handler.InsertEntry, UpdateEntry and ImportEntriesFromCSV pass the DAO's error to
\* checkError, which panics on it; Handler.DeleteEntries drops both results of
\* entryDao.DeleteEntries and writes nothing.
HandlerResponse(op, r) ==
    IF op = "DeleteEntries" THEN "ok"
    ELSE IF r.err # "" THEN "error" ELSE "ok"

\* The rows a delete request r finds in table T.
DeleteHits(T, r) == {row \in T : row.id \in r.ids}

\* C11: a DeleteEntries call that names at least one stored entry, and on which
\* the store did not fail, returns no error and the number of rows it removed,
\* having removed exactly the stored entries whose id is in the list.
C11_DeleteEntriesReturnsCount ==
    (/\ Done("p1", "DeleteEntries")
     /\ ret["p1"].err # "store"
     /\ DeleteHits(pre["p1"].entry, req["p1"]) # {})
    => /\ ret["p1"].err = ""
       /\ ret["p1"].count = Cardinality(DeleteHits(pre["p1"].entry, req["p1"]))
       /\ entry = pre["p1"].entry \ DeleteHits(pre["p1"].entry, req["p1"])

\* C12: when the store fails on a delete request, or the request removed fewer
\* rows than it listed ids, the handler's response tells the client so.
C12_DeleteFailureSurfaced ==
    (/\ Done("p1", "DeleteEntries")
     /\ \/ ret["p1"].err = "store"
        \/ Cardinality(pre["p1"].entry \ entry) < Cardinality(req["p1"].ids))
    => HandlerResponse(req["p1"].op, ret["p1"]) = "error"

\* The stored rows an update request r addresses: same id and same owning account.
Addressed(T, r) ==
    {row \in T : row.id = r.entries[1].id /\ row.account_id = r.entries[1].account_id}

\* C14: an UpdateEntry whose (id, account) pair addresses no stored entry returns
\* an error and changes no entry row.
C14_UpdateUnmatchedIsError ==
    (Done("p1", "UpdateEntry") /\ Addressed(pre["p1"].entry, req["p1"]) = {})
    => (Failed("p1") /\ entry = pre["p1"].entry)

\* C14 witness: an update naming the id of an entry of another account has come
\* back as "not found".
C14_Witness ==
    /\ Done("p1", "UpdateEntry")
    /\ ret["p1"].err = "notfound"
    /\ \E row \in pre["p1"].entry :
          /\ row.id = req["p1"].entries[1].id
          /\ row.account_id # req["p1"].entries[1].account_id

\* The stored rows a listing request r asks for.
Wanted(r) ==
    {row \in entry :
        /\ row.account_id = r.account \/ row.affected_account_id = r.account
        /\ r.range.start <= row.date
        /\ row.date <= r.range.end}

C15_UpdateFrame ==
    (Done("p1", "UpdateEntry") /\ ~Failed("p1"))
    => \E old \in Addressed(pre["p1"].entry, req["p1"]), new \in entry :
          /\ new.id = old.id
          /\ new.account_id = old.account_id
          /\ new.affected_account_id = old.affected_account_id
          /\ entry \ {new} = pre["p1"].entry \ {old}

\* C15 witness: a successful update, of a row next to which another row is
\* stored, by a request that names another affected account than the row has and
\* changes the row.
C15_Witness ==
    /\ Done("p1", "UpdateEntry")
    /\ ~Failed("p1")
    /\ Cardinality(pre["p1"].entry) >= 2
    /\ entry # pre["p1"].entry
    /\ \E old \in Addressed(pre["p1"].entry, req["p1"]) :
          old.affected_account_id # req["p1"].entries[1].affected_account_id

\* C16: every stored entry's amount is a non-negative magnitude.
C16_StoredAmountNonNegative == \A row \in entry : row.amount >= 0

\* The signed amount of entry e as account accountId is to see it.
Signed(e, accountId) ==
    CASE e.type = Income -> e.amount
      [] e.type = Expense -> 0 - e.amount
      [] e.type = Transfer -> IF accountId = e.account_id THEN 0 - e.amount ELSE e.amount

\* C17: for every entry of non-negative stored amount, the CSV export and the
\* entry list show +m for Income, -m for Expense, and for a Transfer -m to the
\* owning account and +m to the affected account.
C17_SignAtPresentation ==
    /\ Done("p1", "Export") =>
          LET es == Entries(req["p1"].account, req["p1"].range)
          IN \A i \in 1..Len(es) :
                es[i].amount >= 0 =>
                    ret["p1"].entries[i].amount = Signed(es[i], req["p1"].account)
    /\ Done("p1", "Entries") =>
          \A i \in 1..Len(ret["p1"].entries) :
                ret["p1"].entries[i].amount >= 0 =>
                    ViewAmount(ret["p1"].entries[i], req["p1"].account)
                        = Signed(ret["p1"].entries[i], req["p1"].account)

\* An import request has completed for handler p.
Imported(p) == Done(p, "SaveEntries") /\ "csv" \in DOMAIN req[p]

\* The text has the form YYYY-MM-DD.
IsIsoDate(s) ==
    /\ Len(s) = 10
    /\ \A i \in {1, 2, 3, 4, 6, 7, 9, 10} : IsDigit(s, i)
    /\ s[5] = "-" /\ s[8] = "-"

Jan5 == <<"2", "0", "2", "4", "-", "0", "1", "-", "0", "5">>

\* Every date text the import accepts is normalised to YYYY-MM-DD; "2024-1-5",
\* "2024-Jan-05" and "05/01/2024" give "2024-01-05"; "13/13/2024" is not accepted.
DatesNormalised ==
    /\ \A text \in CsvDates : ImportDate(text) # <<>> => IsIsoDate(ImportDate(text))
    /\ ImportDate(<<"2", "0", "2", "4", "-", "1", "-", "5">>) = Jan5
    /\ ImportDate(<<"2", "0", "2", "4", "-", "J", "a", "n", "-", "0", "5">>) = Jan5
    /\ ImportDate(<<"0", "5", "/", "0", "1", "/", "2", "0", "2", "4">>) = Jan5
    /\ ImportDate(<<"1", "3", "/", "1", "3", "/", "2", "0", "2", "4">>) = <<>>

\* C18: the import normalises every accepted date to YYYY-MM-DD (the three
\* example texts to 2024-01-05, which is the date of the entries it passes on),
\* and an import with a row whose date matches no accepted layout ends with an
\* error, or an error report, for the caller.
C18_DateNormalisedOrRejected ==
    /\ DatesNormalised
    /\ Imported("p1") =>
          /\ \A k \in 1..Len(req["p1"].entries) :
                req["p1"].entries[k].date = DateValue(Jan5)
          /\ (\E i \in 1..Len(req["p1"].csv) : RowError(req["p1"].csv[i]) = "date")
             => \/ ImportResponse(req["p1"], ret["p1"]).status = "error"
                \/ "errors" \in DOMAIN ImportResponse(req["p1"], ret["p1"])

\* C19: an import of a file with a malformed row (mandatory column missing,
\* date or amount unparseable), on which the store did not fail, either stores
\* nothing or returns an error report with its response.
C19_ImportPolicy ==
    (/\ Imported("p1")
     /\ ret["p1"].err # "store"
     /\ ErrorBuilder(req["p1"].csv) # <<>>)
    => \/ (entry = pre["p1"].entry /\ category = pre["p1"].category)
       \/ "errors" \in DOMAIN ImportResponse(req["p1"], ret["p1"])

\* C20: the expense range returned for a year that has rows in the view is the
\* minimum and the maximum of the amounts of that year's rows.
C20_RangeScopedToYear ==
    (Done("p1", "ExpenseRange") /\ RowsOfYear(req["p1"].year) # {})
    => /\ ~Failed("p1")
       /\ ret["p1"].range.min = MinAmount(RowsOfYear(req["p1"].year))
       /\ ret["p1"].range.max = MaxAmount(RowsOfYear(req["p1"].year))

\* The totals the ledger holds for one account, type, month and year: one summary
\* per category that has such entries.
TotalsOfYear(accountId, month, categoryType, year) ==
    LET rows == {e \in entry : /\ e.type = categoryType
                               /\ e.account_id = accountId
                               /\ MonthOf(e.date) = month
                               /\ YearOf(e.date) = year}
    IN  {[category |-> c, amount |-> SumAmount({e \in rows : e.category = c})] :
            c \in {e.category : e \in rows}}

\* C21: where the server accepts the statement and the ledger holds entries of the
\* account, the type and the month, the totals returned are, for one year, one
\* summary per category whose amount is the sum of exactly the entries of that
\* category, account, type, month and year.
C21_TotalsPerCategoryAndYear ==
    (/\ Done("p1", "CategoryTotals")
     /\ ret["p1"].err # "query"
     /\ TotalsRows(req["p1"].account, req["p1"].month, req["p1"].type) # {})
    => /\ ~Failed("p1")
       /\ \E year \in {YearOf(e.date) : e \in entry} :
             ret["p1"].summaries =
                 TotalsOfYear(req["p1"].account, req["p1"].month, req["p1"].type, year)

\* C22: DeleteAccounts(ids) removes exactly the accounts whose id is in ids and
\* returns their number, a failed call removes none, and either way every entry
\* and every category is left as it was.
C22_DeleteAccountsFrame ==
    Done("p1", "DeleteAccounts")
    => LET hit == {a \in pre["p1"].account : a.id \in req["p1"].ids}
       IN /\ entry = pre["p1"].entry
          /\ category = pre["p1"].category
          /\ Failed("p1") => account = pre["p1"].account
          /\ ~Failed("p1") => /\ account = pre["p1"].account \ hit
                              /\ ret["p1"].count = Cardinality(hit)

\* C22 witness: one of two accounts has been deleted, asked for together with an
\* id that names no account, and its entry and its category are still stored.
C22_Witness ==
    /\ Done("p1", "DeleteAccounts")
    /\ ~Failed("p1")
    /\ ret["p1"].count = 1
    /\ Cardinality(req["p1"].ids) = 2
    /\ account # {}
    /\ \E e \in entry : \E c \in category :
          /\ e.category = c.id
          /\ e.account_id \in req["p1"].ids
          /\ c.account_id = e.account_id
          /\ ~ \E a \in account : a.id = e.account_id

\* C25: over SaveEntries, SaveEntry, UpdateEntry, DeleteEntries and the account
\* calls, every stored category stays stored as it is, a new category never takes
\* the id of a stored one, and the category table changes only during SaveEntries,
\* SaveEntry or UpdateEntry.
C25_CategoriesOnlyAdded ==
    [][/\ category \subseteq category'
       /\ \A c \in category' \ category : ~ \E d \in category : d.id = c.id
       /\ category' # category
            => req'["p1"].op \in {"SaveEntries", "SaveEntry", "UpdateEntry"}]_vars

\* C25 witness: DeleteEntries has removed every entry and the categories the
\* entries named are still stored.
C25_Witness ==
    /\ Done("p1", "DeleteEntries")
    /\ pre["p1"].entry # {}
    /\ entry = {}
    /\ category # {}
    /\ category = pre["p1"].category

\* C23: once an admin user exists, no step of a DeleteUsers or UpdateUser request
\* leaves the user table without an admin.
C23_AdminRemains ==
    [][AdminIds # {} => (AdminIds # {})']_vars

\* C24: a DeleteUsers call that returns usernames has removed one user for every
\* id it was given and returns the usernames those users had when they were
\* removed; a call that returns an error has removed no user.
C24_DeleteUsersAllOrNothing ==
    \A p \in Procs :
        Done(p, "DeleteUsers")
        => IF Failed(p) THEN loc[p].deleted = {}
           ELSE /\ {u.id : u \in loc[p].deleted} = req[p].ids
                /\ Cardinality(loc[p].deleted) = Len(req[p].list)
                /\ ret[p].usernames = UsernamesOf(loc[p].deleted)

\* C30: a user saved by an InsertUser request that carries no session is saved
\* into a user table without an admin.
C30_UnauthenticatedOnlyWithoutAdmin ==
    [][\A p \in Procs :
          (/\ pc[p] = "SaveUser"
           /\ user' # user
           /\ pc'[p] = "done"
           /\ ~MustAuthenticateUser(req[p]))
          => AdminIds = {}]_vars

\* The EntryDao calls that begin transactions.
EntryDaoOps ==
    {"SaveEntries", "SaveEntry", "UpdateEntry", "CreateCategoryIfNotExists", "DeleteEntries"}

\* C26: when an EntryDao call for named categories has returned, every transaction
\* it began has been committed or rolled back, and no Commit was issued on a
\* transaction that was already finished.
C26_TransactionsFinishedOnce ==
    (pc["p1"] = "done" /\ req["p1"].op \in EntryDaoOps /\ AllNamed(req["p1"]))
    => /\ \A i \in 1..Len(tx["p1"]) : tx["p1"][i] # "open"
       /\ ret["p1"].err # "txdone"

\* C28: the paged listing of an existing account, asked for page 0 or above, uses
\* a page in 1..max(1, maxPage) and an offset that is not negative.
C28_PageWithinRange ==
    (Done("p1", "Page") /\ ret["p1"].err # "account" /\ req["p1"].page >= 0)
    => LET g == ret["p1"].paging
       IN /\ 1 <= g.page
          /\ g.page <= (IF g.maxPage > 1 THEN g.maxPage ELSE 1)
          /\ g.offset >= 0

\* C29: the entries of an import whose affectedAccountID form value spells an
\* integer are stored with that affected account; the entries of an import without
\* the value, or with a value that spells no integer, are stored with none.
C29_ImportAffectedAccount ==
    (/\ Done("p1", "SaveEntries")
     /\ "form" \in DOMAIN req["p1"]
     /\ ~Failed("p1"))
    => LET form == req["p1"].form
           given == form # <<>> /\ Atoi(form[1]).ok
       IN \A e \in entry \ pre["p1"].entry :
             IF given
             THEN /\ req["p1"].affectedAccountID.valid
                  /\ e.affected_account_id = Atoi(form[1]).n
             ELSE /\ ~req["p1"].affectedAccountID.valid
                  /\ e.affected_account_id = 0

\* C27: when the export of an account's incomes and expenses has been imported
\* into an empty account, the i-th imported entry has the date, the type, the
\* amount and the category name of the i-th exported entry.
C27_ExportImportRoundTrip ==
    (/\ Done("p1", "SaveEntries")
     /\ "exported" \in DOMAIN req["p1"]
     /\ ~Failed("p1"))
    => \A i \in 1..Len(req["p1"].exported) :
          \E e \in entry :
             LET x == req["p1"].exported[i]
             IN /\ e.id = pre["p1"].lastEntryID + i
                /\ e.account_id = 2
                /\ e.date = x.date
                /\ e.type = x.type
                /\ e.amount = x.amount
                /\ CategoryNameOf(e.category) = x.category

====
